---- MODULE Spec2Model ----
(***************************************************************************)
(* Article indexing and caching service (models/article_model.go).         *)
(*                                                                         *)
(* The service keeps no data of its own: the documents live in the search  *)
(* engine (global.Es), the hot copies in the cache store (s.cache), and    *)
(* every operation is a short sequence of calls to those two stores.  Each *)
(* call to a store is one atomic step here; every cache call runs under    *)
(* the service's RWMutex for exactly the length of that call.              *)
(*                                                                         *)
(* An Article is the Go struct; Title stands for all the fields the        *)
(* service only carries (title, abstract, content, the three other         *)
(* counters, user, category, cover).  A document is the JSON object the    *)
(* struct marshals to, keyed by the json tags.                             *)
(***************************************************************************)
EXTENDS Integers, Sequences, FiniteSets, Bags, TLC

\* ------------------------------------------------------------- bounds
\* Calls the clients start in one behaviour.
MaxCalls == 3
\* The wall clock runs from 0 to MaxTime.
MaxTime == 1

\* ---------------------------------------------------------- constants
batchSize == 1000
\* GetArticle caches a fetched article whose LookCount is above this.
hotLookCount == 100

\* ------------------------------------------------------------- inputs
Clients == {"c1", "c2"}
\* The articles the model follows; any other id never has a document.
Ids == {"a1", "a2"}
Titles == {"t1", "t2"}
LookCounts == {hotLookCount, hotLookCount + 1}
\* Version a caller may hand to UpdateArticle (a fresh struct has 0).
CallerVersions == {0, 1, 2}

VARIABLES
    engine,       \* engine[id]: <<>> or <<document>>, the index's documents
    indexExists,  \* whether article_index exists
    cache,        \* cache[id]: <<>> or <<document>>, key article:<id>
    call,         \* call[c]: the client's current (or last) call
    group,        \* group[c]: the errgroup of the client's DeleteArticles
    incs,         \* bag of detached incrementLookCount tasks
    now,          \* the wall clock
    nCalls,       \* calls started so far
    held,         \* held[id]: every document the engine has held for id
    last,         \* the call that returned most recently: its op, article, result
    mu,           \* the service's RWMutex, where the model follows it
    thread,       \* thread[t]: the goroutines followed through the mutex
    search        \* the documents a search matches and the clients' searches

vars == <<engine, indexExists, cache, call, group, incs, now, nCalls, held, last,
          mu, thread, search>>

\* The mutex and the goroutines followed through it.
locks == <<mu, thread>>

\* The clients' calls and the record of the last return.
calls == <<call, last>>

\* ------------------------------------------------------------ Article
ZeroArticle ==
    [ID |-> "", CreatedAt |-> 0, UpdatedAt |-> 0, Title |-> "",
     LookCount |-> 0, Version |-> 0]

\* json.Marshal of an Article: one key per json tag.
Marshal(a) ==
    [id |-> a.ID, created_at |-> a.CreatedAt, updated_at |-> a.UpdatedAt,
     title |-> a.Title, look_count |-> a.LookCount, version |-> a.Version]

JsonField(d, k, zero) == IF k \in DOMAIN d THEN d[k] ELSE zero

\* json.Unmarshal into a zero Article: a key that is absent leaves the zero.
Unmarshal(d) ==
    [ID |-> JsonField(d, "id", ""),
     CreatedAt |-> JsonField(d, "created_at", 0),
     UpdatedAt |-> JsonField(d, "updated_at", 0),
     Title |-> JsonField(d, "title", ""),
     LookCount |-> JsonField(d, "look_count", 0),
     Version |-> JsonField(d, "version", 0)]

\* ------------------------------------------------------------- stores
Tracked(id) == id \in Ids

HasDoc(id) == Tracked(id) /\ engine[id] # <<>>
HasCache(id) == Tracked(id) /\ cache[id] # <<>>

\* The engine's partial-document update: the keys of doc replace the stored ones.
MergeDoc(old, doc) ==
    [k \in DOMAIN old \cup DOMAIN doc |-> IF k \in DOMAIN doc THEN doc[k] ELSE old[k]]

\* The script "ctx._source.look_count++".
ScriptIncrement(d) == [d EXCEPT !["look_count"] = @ + 1]

\* The engine stores document d under id (and remembers it held d).
EnginePut(id, d) ==
    /\ engine' = [engine EXCEPT ![id] = <<d>>]
    /\ held' = [held EXCEPT ![id] = @ \cup {d}]

\* cache.Set under s.mu.Lock.
CachePut(id, a) == cache' = [cache EXCEPT ![id] = <<Marshal(a)>>]

\* A deletion that leaves the entry in place.
CacheDelNoop(id) == UNCHANGED cache

\* cache.Del under s.mu.Lock.
CacheDel(id) == cache' = IF Tracked(id) THEN [cache EXCEPT ![id] = <<>>] ELSE cache

\* --------------------------------------------------------------- calls
IdleCall ==
    [op |-> "none", pc |-> "idle", art |-> ZeroArticle, ids |-> <<>>,
     ret |-> "", out |-> ZeroArticle]

NoCall == [op |-> "none", art |-> ZeroArticle, ret |-> ""]

\* errgroup.WithContext: the tasks, the shared context, the first error (0: nil);
\* failed lists the tasks in the order they returned an error, warned whether
\* a cache deletion failure was logged.
NoGroup == [tasks |-> <<>>, cancelled |-> FALSE, err |-> 0, failed |-> <<>>,
            warned |-> FALSE]

CanStart(c) == call[c].pc \in {"idle", "done"} /\ nCalls < MaxCalls

Begin(c, op, pc, art, ids) ==
    /\ CanStart(c)
    /\ nCalls' = nCalls + 1
    /\ call' = [call EXCEPT ![c] =
                   [op |-> op, pc |-> pc, art |-> art, ids |-> ids,
                    ret |-> "", out |-> ZeroArticle]]
    /\ UNCHANGED last

Goto(c, pc) == call' = [call EXCEPT ![c].pc = pc] /\ UNCHANGED last

\* The call returns ret; out is the article it returns with it.
ReturnWith(c, ret, out) ==
    /\ call' = [call EXCEPT ![c].pc = "done", ![c].ret = ret, ![c].out = out]
    /\ last' = [op |-> call[c].op, art |-> call[c].art, ret |-> ret]

Return(c, ret) == ReturnWith(c, ret, call[c].out)

At(c, op, pc) == call[c].op = op /\ call[c].pc = pc

\* The article a caller builds from a request.
CallerArticle(id, title, look, version) ==
    [ZeroArticle EXCEPT !.ID = id, !.Title = title, !.LookCount = look,
                        !.Version = version]

\* ------------------------------------------------------------ mutex
\* Concurrent GetArticle calls followed through the mutex.
MaxGetters == 2

\* A goroutine: a GetArticle call, the incrementLookCount it starts, and the
\* task of a DeleteArticles batch.
Getters == {<<"get", k>> : k \in 1..MaxGetters}
Incrementers == {<<"inc", k>> : k \in 1..MaxGetters}
Deleter == <<"del", 0>>
ThreadIds == Getters \cup Incrementers \cup {Deleter}

\* sync.RWMutex: the goroutines holding a read lock, and the one that holds
\* the writers' mutex (it waits for the readers to leave, then owns the lock).
NoThread == <<"none", 0>>
FreeLock == [readers |-> {}, writer |-> NoThread]

\* pc: the goroutine's place in its function; sect: its place in the cache
\* helper it is calling ("out": in none; "ret": the helper has returned);
\* err, art: what getCache returned.
NewThread(pc) == [pc |-> pc, sect |-> "out", err |-> FALSE, art |-> ZeroArticle]

NoThreads ==
    [t \in ThreadIds |-> NewThread(IF t \in Incrementers THEN "unspawned" ELSE "idle")]

\* ------------------------------------------------------ SearchArticles
articleIndex == "article_index"

\* A JSON value in the _source of a hit, with its JSON type.
JsonString(s) == [t |-> "string", v |-> s]
JsonNumber(n) == [t |-> "number", v |-> n]

\* The JSON type the Article field behind each tag decodes from.
FieldType ==
    [id |-> "string", created_at |-> "number", updated_at |-> "number",
     title |-> "string", look_count |-> "number", version |-> "number"]

\* The _source the engine holds for an article the service marshalled.
SourceOf(a) ==
    LET d == Marshal(a)
    IN [k \in DOMAIN d |->
           IF FieldType[k] = "string" THEN JsonString(d[k]) ELSE JsonNumber(d[k])]

\* json.Unmarshal(hit.Source_, &article): a key of the wrong JSON type is an
\* error (the field keeps its zero, the other keys are still decoded); a key
\* the struct has no tag for is ignored.
UnmarshalSource(src) ==
    LET known == DOMAIN src \cap DOMAIN FieldType
        typed == {k \in known : src[k].t = FieldType[k]}
    IN [ok |-> typed = known, art |-> Unmarshal([k \in typed |-> src[k].v])]

\* SearchParams with the PageInfo it embeds.
ZeroParams ==
    [Key |-> "", Page |-> 0, PageSize |-> 0, Category |-> "", SortField |-> "",
     SortOrder |-> ""]

MultiMatchFields == <<"title^3", "abstract^2", "content">>

\* boolQuery.Must: the multi_match on the key, then the term on the category.
MustClauses(params) ==
    (IF params.Key # ""
       THEN <<[kind |-> "multi_match", value |-> params.Key, fields |-> MultiMatchFields]>>
       ELSE <<>>)
    \o (IF params.Category # ""
          THEN <<[kind |-> "term", value |-> params.Category, fields |-> <<"category">>]>>
          ELSE <<>>)

\* A sort that is ascending unless "desc" is asked for.
SortOfAscUnlessDesc(params) ==
    IF params.SortField # ""
      THEN <<params.SortField \o ":"
               \o (IF params.SortOrder = "desc" THEN "desc" ELSE "asc")>>
      ELSE <<>>

\* searchRequest.Sort: "<field>:<order>", and only with a sort field.
SortOf(params) ==
    IF params.SortField # ""
      THEN <<params.SortField \o ":"
               \o (IF params.SortOrder = "asc" THEN "asc" ELSE "desc")>>
      ELSE <<>>

\* The request SearchArticles sends.
BuildRequest(params) ==
    [index |-> articleIndex, must |-> MustClauses(params),
     from |-> (params.Page - 1) * params.PageSize, size |-> params.PageSize,
     sort |-> SortOf(params)]

NoRequest == [index |-> "", must |-> <<>>, from |-> 0, size |-> 0, sort |-> <<>>]

\* searchRequest.Do on the documents that match, in the engine's order: the
\* total counts them all, the hits are the size documents after the first from.
EngineSearch(request, matching) ==
    LET n == Len(matching)
        lo == request.from
        hi == IF lo + request.size > n THEN n ELSE lo + request.size
    IN [total |-> n,
        hits |-> IF lo >= hi THEN <<>> ELSE [j \in 1..(hi - lo) |-> matching[lo + j]]]

\* One turn of the loop, with the article appended whatever Unmarshal returned.
CollectHitUnchecked(articles, hit) ==
    Append(articles, UnmarshalSource(hit).art)

\* One turn of the loop over resp.Hits.Hits: a hit that fails to decode is
\* logged and skipped.
CollectHit(articles, hit) ==
    LET r == UnmarshalSource(hit)
    IN IF r.ok THEN Append(articles, r.art) ELSE articles

RECURSIVE CollectFrom(_, _)
CollectFrom(hits, articles) ==
    IF hits = <<>> THEN articles
    ELSE CollectFrom(Tail(hits), CollectHit(articles, Head(hits)))

\* The SearchResult of a response.
SearchResultOf(resp) ==
    [Articles |-> CollectFrom(resp.hits, <<>>), Total |-> resp.total]

NoResult == [Articles |-> <<>>, Total |-> 0]

\* matching: the documents of the index that match the query of the search
\* in progress, in the order the engine ranks them; of[c]: the client's search,
\* with resp <<>> until the engine has answered and <<response>> after.
NoSearchCall ==
    [params |-> ZeroParams, request |-> NoRequest, resp |-> <<>>,
     result |-> NoResult]

NoSearch == [matching |-> <<>>, of |-> [c \in Clients |-> NoSearchCall]]

Init ==
    /\ search = NoSearch
    /\ mu = FreeLock
    /\ thread = NoThreads
    /\ engine = [id \in Ids |-> <<>>]
    /\ indexExists = TRUE
    /\ cache = [id \in Ids |-> <<>>]
    /\ call = [c \in Clients |-> IdleCall]
    /\ group = [c \in Clients |-> NoGroup]
    /\ incs = EmptyBag
    /\ now = 0
    /\ nCalls = 0
    /\ held = [id \in Ids |-> {}]
    /\ last = NoCall

\* ------------------------------------------------------- CreateArticle
\* A stamp that keeps the version the caller sent.
CreateStampKeepVersion(a, t) == [a EXCEPT !.CreatedAt = t, !.UpdatedAt = t]

\* article.CreatedAt = time.Now(); article.UpdatedAt = time.Now(); article.Version = 1
CreateStamp(a, t) == [a EXCEPT !.CreatedAt = t, !.UpdatedAt = t, !.Version = 1]

CreateArticle(c, a) ==
    /\ Begin(c, "create", "exists_cache", a, <<>>)
    /\ UNCHANGED <<engine, indexExists, cache, group, incs, now, held, locks, search>>

\* ArticleExists: s.getCache(id); err == nil answers true.
CreateExistsCache(c, ok) ==
    /\ At(c, "create", "exists_cache")
    /\ IF ok /\ HasCache(call[c].art.ID)
         THEN Return(c, "already_exists")
         ELSE Goto(c, "exists_engine")
    /\ UNCHANGED <<engine, indexExists, cache, group, incs, now, nCalls, held, locks, search>>

\* An existence check that ignores the engine's answer.
CreateExistsEngineUnchecked(c, ok) ==
    /\ At(c, "create", "exists_engine")
    /\ IF ~ok
         THEN Return(c, "exists_check_failed")
         ELSE /\ call' = [call EXCEPT ![c].pc = "index",
                                      ![c].art = CreateStamp(@, now)]
              /\ UNCHANGED last
    /\ UNCHANGED <<engine, indexExists, cache, group, incs, now, nCalls, held, locks, search>>

\* ArticleExists: Es.Exists; then CreateArticle stamps the article.
CreateExistsEngine(c, ok) ==
    /\ At(c, "create", "exists_engine")
    /\ IF ~ok
         THEN Return(c, "exists_check_failed")
         ELSE IF HasDoc(call[c].art.ID)
           THEN Return(c, "already_exists")
           ELSE /\ call' = [call EXCEPT ![c].pc = "index",
                                        ![c].art = CreateStamp(@, now)]
                /\ UNCHANGED last
    /\ UNCHANGED <<engine, indexExists, cache, group, incs, now, nCalls, held, locks, search>>

\* Es.Index(articleIndex).Id(id).Document(article).Refresh(true).
CreateIndexDoc(c, ok) ==
    /\ At(c, "create", "index")
    /\ IF ok
         THEN /\ EnginePut(call[c].art.ID, Marshal(call[c].art))
              /\ indexExists' = TRUE
              /\ Goto(c, "set_cache")
         ELSE /\ Return(c, "create_failed")
              /\ UNCHANGED <<engine, indexExists, held>>
    /\ UNCHANGED <<cache, group, incs, now, nCalls, locks, search>>

\* return s.setCache(article.ID, article)
CreateSetCache(c, ok) ==
    /\ At(c, "create", "set_cache")
    /\ IF ok
         THEN CachePut(call[c].art.ID, call[c].art) /\ Return(c, "ok")
         ELSE UNCHANGED cache /\ Return(c, "cache_error")
    /\ UNCHANGED <<engine, indexExists, group, incs, now, nCalls, held, locks, search>>

\* ---------------------------------------------------------- GetArticle
GetArticle(c, id) ==
    /\ Begin(c, "get", "get_cache", [ZeroArticle EXCEPT !.ID = id], <<>>)
    /\ UNCHANGED <<engine, indexExists, cache, group, incs, now, held, locks, search>>

\* A cache hit that schedules no increment.
GetCacheNoCount(c, ok) ==
    /\ At(c, "get", "get_cache")
    /\ LET id == call[c].art.ID IN
       IF ok /\ HasCache(id)
         THEN ReturnWith(c, "ok", Unmarshal(cache[id][1]))
         ELSE Goto(c, "get_engine")
    /\ UNCHANGED <<engine, indexExists, cache, group, incs, now, nCalls, held, locks, search>>

\* s.getCache(id); on a hit: go s.incrementLookCount(id); return article.
GetCache(c, ok) ==
    /\ At(c, "get", "get_cache")
    /\ LET id == call[c].art.ID IN
       IF ok /\ HasCache(id)
         THEN /\ ReturnWith(c, "ok", Unmarshal(cache[id][1]))
              /\ incs' = incs (+) SetToBag({[id |-> id, pc |-> "script", art |-> ZeroArticle]})
         ELSE Goto(c, "get_engine") /\ UNCHANGED incs
    /\ UNCHANGED <<engine, indexExists, cache, group, now, nCalls, held, locks, search>>

\* A fetch that caches from a look count of 100 on.
GetEngineCacheFromHundred(c, ok) ==
    /\ At(c, "get", "get_engine")
    /\ LET id == call[c].art.ID IN
       IF ok /\ HasDoc(id)
         THEN LET result == Unmarshal(engine[id][1]) IN
              IF result.LookCount >= hotLookCount
                THEN /\ call' = [call EXCEPT ![c].out = result, ![c].pc = "set_cache"]
                     /\ UNCHANGED last
                ELSE ReturnWith(c, "ok", result)
         ELSE Return(c, "get_failed")
    /\ UNCHANGED <<engine, indexExists, cache, group, incs, now, nCalls, held, locks, search>>

\* Es.Get(articleIndex, id); json.Unmarshal; the LookCount > 100 test.
GetEngine(c, ok) ==
    /\ At(c, "get", "get_engine")
    /\ LET id == call[c].art.ID IN
       IF ok /\ HasDoc(id)
         THEN LET result == Unmarshal(engine[id][1]) IN
              IF result.LookCount > hotLookCount
                THEN /\ call' = [call EXCEPT ![c].out = result, ![c].pc = "set_cache"]
                     /\ UNCHANGED last
                ELSE ReturnWith(c, "ok", result)
         ELSE Return(c, "get_failed")
    /\ UNCHANGED <<engine, indexExists, cache, group, incs, now, nCalls, held, locks, search>>

\* s.setCache(id, &result); a failure is logged only.
GetSetCache(c, ok) ==
    /\ At(c, "get", "set_cache")
    /\ IF ok THEN CachePut(call[c].art.ID, call[c].out) ELSE UNCHANGED cache
    /\ Return(c, "ok")
    /\ UNCHANGED <<engine, indexExists, group, incs, now, nCalls, held, locks, search>>

\* ------------------------------------------------------- UpdateArticle
\* article.Version++; article.UpdatedAt = time.Now()
UpdateStamp(a, t) == [a EXCEPT !.Version = @ + 1, !.UpdatedAt = t]

UpdateArticle(c, a) ==
    /\ Begin(c, "update", "update_engine", UpdateStamp(a, now), <<>>)
    /\ UNCHANGED <<engine, indexExists, cache, group, incs, now, held, locks, search>>

\* An update that writes the cache along with the engine request.
UpdateEngineCacheFirst(c, ok) ==
    /\ At(c, "update", "update_engine")
    /\ LET id == call[c].art.ID IN
       /\ IF Tracked(id) THEN CachePut(id, call[c].art) ELSE UNCHANGED cache
       /\ IF ok /\ HasDoc(id)
            THEN /\ EnginePut(id, MergeDoc(engine[id][1], Marshal(call[c].art)))
                 /\ Goto(c, "set_cache")
            ELSE /\ Return(c, "update_failed")
                 /\ UNCHANGED <<engine, held>>
    /\ UNCHANGED <<indexExists, group, incs, now, nCalls, locks, search>>

\* Es.Update(articleIndex, id).Doc(article).Refresh(true): fails on a missing document.
UpdateEngine(c, ok) ==
    /\ At(c, "update", "update_engine")
    /\ LET id == call[c].art.ID IN
       IF ok /\ HasDoc(id)
         THEN /\ EnginePut(id, MergeDoc(engine[id][1], Marshal(call[c].art)))
              /\ Goto(c, "set_cache")
         ELSE /\ Return(c, "update_failed")
              /\ UNCHANGED <<engine, held>>
    /\ UNCHANGED <<indexExists, cache, group, incs, now, nCalls, locks, search>>

\* return s.setCache(article.ID, article)
UpdateSetCache(c, ok) ==
    /\ At(c, "update", "set_cache")
    /\ IF ok
         THEN CachePut(call[c].art.ID, call[c].art) /\ Return(c, "ok")
         ELSE UNCHANGED cache /\ Return(c, "cache_error")
    /\ UNCHANGED <<engine, indexExists, group, incs, now, nCalls, held, locks, search>>

\* -------------------------------------------------- incrementLookCount
IncMove(t, u) == incs' = (incs (-) SetToBag({t})) (+) SetToBag({u})
IncEnd(t) == incs' = incs (-) SetToBag({t})

\* Es.Update(articleIndex, id).Script(look_count++): fails on a missing document.
IncScript(t, ok) ==
    /\ BagIn(t, incs) /\ t.pc = "script"
    /\ IF ok /\ HasDoc(t.id)
         THEN /\ EnginePut(t.id, ScriptIncrement(engine[t.id][1]))
              /\ IncMove(t, [t EXCEPT !.pc = "get_cache"])
         ELSE /\ IncEnd(t)
              /\ UNCHANGED <<engine, held>>
    /\ UNCHANGED <<indexExists, cache, calls, group, now, nCalls, locks, search>>

\* article, err := s.getCache(id); article.LookCount++
IncGetCache(t, ok) ==
    /\ BagIn(t, incs) /\ t.pc = "get_cache"
    /\ IF ok /\ HasCache(t.id)
         THEN IncMove(t, [t EXCEPT !.pc = "set_cache",
                  !.art = [Unmarshal(cache[t.id][1]) EXCEPT !.LookCount = @ + 1]])
         ELSE IncEnd(t)
    /\ UNCHANGED <<engine, indexExists, cache, calls, group, now, nCalls, held, locks, search>>

\* s.setCache(id, article); a failure is logged only.
IncSetCache(t, ok) ==
    /\ BagIn(t, incs) /\ t.pc = "set_cache"
    /\ IF ok THEN CachePut(t.id, t.art) ELSE UNCHANGED cache
    /\ IncEnd(t)
    /\ UNCHANGED <<engine, indexExists, calls, group, now, nCalls, held, locks, search>>

\* ------------------------------------------------------ DeleteArticles
\* A slice end that is not held to len(ids).
SliceEndUnclamped(i, n) == i + batchSize

\* end := i + batchSize; if end > len(ids) { end = len(ids) }
SliceEnd(i, n) == IF i + batchSize > n THEN n ELSE i + batchSize

\* for i := 0; i < len(ids); i += batchSize: the slices ids[i:end], in order.
RECURSIVE BatchesFrom(_, _)
BatchesFrom(i, n) ==
    IF i < n
      THEN <<[lo |-> i, hi |-> SliceEnd(i, n), pc |-> "bulk", k |-> i]>>
           \o BatchesFrom(i + batchSize, n)
      ELSE <<>>

Batches(ids) == BatchesFrom(0, Len(ids))

\* batch := ids[lo:hi]
Slice(ids, lo, hi) == [j \in 1..(hi - lo) |-> ids[lo + j]]

SliceIds(ids, t) == {ids[j] : j \in (t.lo + 1)..t.hi}

\* g, ctx := errgroup.WithContext(ctx); one g.Go per batch.
DeleteArticles(c, ids) ==
    /\ Begin(c, "delete", "wait", ZeroArticle, ids)
    /\ group' = [group EXCEPT ![c] = [NoGroup EXCEPT !.tasks = Batches(ids)]]
    /\ UNCHANGED <<engine, indexExists, cache, incs, now, held, locks, search>>

\* A group that keeps the latest error instead of the first.
GroupFailLast(g, i) ==
    [g EXCEPT !.tasks[i].pc = "failed",
              !.err = i,
              !.cancelled = TRUE,
              !.failed = Append(g.failed, i)]

\* errgroup: the first error is kept and cancels the context.
GroupFail(g, i) ==
    [g EXCEPT !.tasks[i].pc = "failed",
              !.err = IF g.err = 0 THEN i ELSE g.err,
              !.cancelled = TRUE,
              !.failed = Append(g.failed, i)]

\* A bulk request that reports success and deletes nothing.
BulkDeleteNoEffect(c, i) ==
    /\ At(c, "delete", "wait")
    /\ i \in DOMAIN group[c].tasks
    /\ group[c].tasks[i].pc = "bulk"
    /\ ~group[c].cancelled
    /\ group' = [group EXCEPT ![c].tasks[i].pc = "uncache"]
    /\ UNCHANGED <<engine, indexExists, cache, calls, incs, now, nCalls, held, locks, search>>

\* bulkRequest.Refresh(true).Do(ctx): every id of the batch is deleted.
BulkDelete(c, i) ==
    /\ At(c, "delete", "wait")
    /\ i \in DOMAIN group[c].tasks
    /\ group[c].tasks[i].pc = "bulk"
    /\ ~group[c].cancelled
    /\ engine' = [id \in Ids |->
                    IF id \in SliceIds(call[c].ids, group[c].tasks[i])
                      THEN <<>> ELSE engine[id]]
    /\ group' = [group EXCEPT ![c].tasks[i].pc = "uncache"]
    /\ UNCHANGED <<indexExists, cache, calls, incs, now, nCalls, held, locks, search>>

\* The bulk request fails (transport error, cancelled context, or resp.Errors):
\* the ids in gone were deleted all the same; none when the context was
\* cancelled before the request.
BulkFail(c, i, gone) ==
    /\ At(c, "delete", "wait")
    /\ i \in DOMAIN group[c].tasks
    /\ group[c].tasks[i].pc = "bulk"
    /\ gone \subseteq SliceIds(call[c].ids, group[c].tasks[i]) \cap Ids
    /\ group[c].cancelled => gone = {}
    /\ engine' = [id \in Ids |-> IF id \in gone THEN <<>> ELSE engine[id]]
    /\ group' = [group EXCEPT ![c] = GroupFail(group[c], i)]
    /\ UNCHANGED <<indexExists, cache, calls, incs, now, nCalls, held, locks, search>>

\* for _, id := range batch { s.deleteCache(id) }: one id; a failure is logged.
BatchDeleteCache(c, i, ok) ==
    /\ At(c, "delete", "wait")
    /\ i \in DOMAIN group[c].tasks
    /\ group[c].tasks[i].pc = "uncache"
    /\ LET t == group[c].tasks[i]
           id == call[c].ids[t.k + 1]
           final == t.k + 1 = t.hi
       IN /\ IF ok THEN CacheDel(id) ELSE UNCHANGED cache
          /\ group' = [group EXCEPT
                         ![c].tasks[i].k = t.k + 1,
                         ![c].tasks[i].pc = IF final THEN "done" ELSE "uncache",
                         ![c].warned = @ \/ ~ok]
    /\ UNCHANGED <<engine, indexExists, calls, incs, now, nCalls, held, locks, search>>

TaskOver(t) == t.pc \in {"done", "failed"}

\* return g.Wait(): once every task has returned, the first error.
DeleteWait(c) ==
    /\ At(c, "delete", "wait")
    /\ \A i \in DOMAIN group[c].tasks : TaskOver(group[c].tasks[i])
    /\ Return(c, IF group[c].err = 0 THEN "ok" ELSE "delete_failed")
    /\ group' = [group EXCEPT ![c].cancelled = TRUE]
    /\ UNCHANGED <<engine, indexExists, cache, incs, now, nCalls, held, locks, search>>

\* --------------------------------------------------------- CreateIndex
CreateIndex(c) ==
    /\ Begin(c, "create_index", "index_exists", ZeroArticle, <<>>)
    /\ UNCHANGED <<engine, indexExists, cache, group, incs, now, held, locks, search>>

\* A CreateIndex that keeps an index it finds.
IndexExistsStepKeep(c, ok) ==
    /\ At(c, "create_index", "index_exists")
    /\ IF ~ok THEN Return(c, "index_check_failed")
       ELSE IF indexExists THEN Return(c, "ok")
       ELSE Goto(c, "create_index")
    /\ UNCHANGED <<engine, indexExists, cache, group, incs, now, nCalls, held, locks, search>>

\* exist, err := s.IndexExists()
IndexExistsStep(c, ok) ==
    /\ At(c, "create_index", "index_exists")
    /\ IF ~ok THEN Return(c, "index_check_failed")
       ELSE IF indexExists THEN Goto(c, "delete_index")
       ELSE Goto(c, "create_index")
    /\ UNCHANGED <<engine, indexExists, cache, group, incs, now, nCalls, held, locks, search>>

\* s.DeleteIndex(): the index goes with all its documents; fails on a missing index.
DeleteIndexStep(c, ok) ==
    /\ At(c, "create_index", "delete_index")
    /\ IF ok /\ indexExists
         THEN /\ engine' = [id \in Ids |-> <<>>]
              /\ indexExists' = FALSE
              /\ Goto(c, "create_index")
         ELSE /\ Return(c, "index_delete_failed")
              /\ UNCHANGED <<engine, indexExists>>
    /\ UNCHANGED <<cache, group, incs, now, nCalls, held, locks, search>>

\* Es.Indices.Create(articleIndex).Mappings(...): fails on an existing index.
CreateIndexStep(c, ok) ==
    /\ At(c, "create_index", "create_index")
    /\ IF ok /\ ~indexExists
         THEN indexExists' = TRUE /\ Return(c, "ok")
         ELSE UNCHANGED indexExists /\ Return(c, "index_create_failed")
    /\ UNCHANGED <<engine, cache, group, incs, now, nCalls, held, locks, search>>

\* ------------------------------------------------------- ArticleExists
ArticleExists(c, id) ==
    /\ Begin(c, "exists", "exists_cache", [ZeroArticle EXCEPT !.ID = id], <<>>)
    /\ UNCHANGED <<engine, indexExists, cache, group, incs, now, held, locks, search>>

\* An existence check that counts a cache hit as a view.
ExistsCacheCounting(c, ok) ==
    /\ At(c, "exists", "exists_cache")
    /\ IF ok /\ HasCache(call[c].art.ID)
         THEN /\ Return(c, "true")
              /\ incs' = incs (+) SetToBag({[id |-> call[c].art.ID, pc |-> "script",
                                            art |-> ZeroArticle]})
         ELSE Goto(c, "exists_engine") /\ UNCHANGED incs
    /\ UNCHANGED <<engine, indexExists, cache, group, now, nCalls, held, locks, search>>

\* _, err := s.getCache(id); err == nil answers true.
ExistsCache(c, ok) ==
    /\ At(c, "exists", "exists_cache")
    /\ IF ok /\ HasCache(call[c].art.ID)
         THEN Return(c, "true")
         ELSE Goto(c, "exists_engine")
    /\ UNCHANGED <<engine, indexExists, cache, group, incs, now, nCalls, held, locks, search>>

\* exists, err := Es.Exists(articleIndex, id)
ExistsEngine(c, ok) ==
    /\ At(c, "exists", "exists_engine")
    /\ IF ~ok THEN Return(c, "exists_check_failed")
       ELSE IF HasDoc(call[c].art.ID) THEN Return(c, "true")
       ELSE Return(c, "false")
    /\ UNCHANGED <<engine, indexExists, cache, group, incs, now, nCalls, held, locks, search>>

\* -------------------------------------------------------- environment
\* The wall clock advances.
Tick ==
    /\ now < MaxTime
    /\ now' = now + 1
    /\ UNCHANGED <<engine, indexExists, cache, calls, group, incs, nCalls, held, locks, search>>

\* A cache entry outlives cacheTTL and the store drops it.
Expire(id) ==
    /\ HasCache(id)
    /\ cache' = [cache EXCEPT ![id] = <<>>]
    /\ UNCHANGED <<engine, indexExists, calls, group, incs, now, nCalls, held, locks, search>>

\* ------------------------------------------------------ specifications
\* One step of any call in flight, of a detached task, or of the environment;
\* cacheOk holds the outcomes a call to the cache store may have.
StepWith(cacheOk) ==
    \/ \E c \in Clients, ok \in cacheOk : CreateExistsCache(c, ok)
    \/ \E c \in Clients, ok \in BOOLEAN : CreateExistsEngine(c, ok)
    \/ \E c \in Clients, ok \in BOOLEAN : CreateIndexDoc(c, ok)
    \/ \E c \in Clients, ok \in cacheOk : CreateSetCache(c, ok)
    \/ \E c \in Clients, ok \in cacheOk : GetCache(c, ok)
    \/ \E c \in Clients, ok \in BOOLEAN : GetEngine(c, ok)
    \/ \E c \in Clients, ok \in cacheOk : GetSetCache(c, ok)
    \/ \E c \in Clients, ok \in BOOLEAN : UpdateEngine(c, ok)
    \/ \E c \in Clients, ok \in cacheOk : UpdateSetCache(c, ok)
    \/ \E c \in Clients : \E i \in 1..Len(group[c].tasks) : BulkDelete(c, i)
    \/ \E c \in Clients : \E i \in 1..Len(group[c].tasks) :
          \E gone \in SUBSET Ids : BulkFail(c, i, gone)
    \/ \E c \in Clients : \E i \in 1..Len(group[c].tasks), ok \in cacheOk :
          BatchDeleteCache(c, i, ok)
    \/ \E c \in Clients : DeleteWait(c)
    \/ \E c \in Clients, ok \in BOOLEAN : IndexExistsStep(c, ok)
    \/ \E c \in Clients, ok \in BOOLEAN : DeleteIndexStep(c, ok)
    \/ \E c \in Clients, ok \in BOOLEAN : CreateIndexStep(c, ok)
    \/ \E c \in Clients, ok \in cacheOk : ExistsCache(c, ok)
    \/ \E c \in Clients, ok \in BOOLEAN : ExistsEngine(c, ok)
    \/ \E t \in BagToSet(incs), ok \in BOOLEAN : IncScript(t, ok)
    \/ \E t \in BagToSet(incs), ok \in cacheOk : IncGetCache(t, ok)
    \/ \E t \in BagToSet(incs), ok \in cacheOk : IncSetCache(t, ok)
    \/ Tick
    \/ \E id \in Ids : Expire(id)

Step == StepWith(BOOLEAN)

\* Concurrent clients working on one article.
HotId == "a1"
ConcCreates == {CallerArticle(HotId, "t1", hotLookCount + 1, 0)}
ConcUpdates == {CallerArticle(HotId, "t2", hotLookCount + 1, v) : v \in {0, 1}}

ConcCalls ==
    \/ \E c \in Clients, a \in ConcCreates : CreateArticle(c, a)
    \/ \E c \in Clients, a \in ConcUpdates : UpdateArticle(c, a)
    \/ \E c \in Clients : GetArticle(c, HotId)
    \/ \E c \in Clients : DeleteArticles(c, <<HotId>>)
    \/ \E c \in Clients : CreateIndex(c)
    \/ \E c \in Clients : ArticleExists(c, HotId)

Next == ConcCalls \/ Step

Spec == Init /\ [][Next]_vars

\* The same clients while every call to the cache store succeeds.
NextCacheUp == ConcCalls \/ StepWith({TRUE})

SpecCacheUp == Init /\ [][NextCacheUp]_vars

\* One client at a time: a call starts only when no other call and no
\* detached task is running, so a detached task runs between two calls.
Active(c) == call[c].pc \notin {"idle", "done"}
Quiet == (\A c \in Clients : ~Active(c)) /\ incs = EmptyBag

SeqClients == {"c1"}
SeqCreates == {CallerArticle(HotId, "t1", l, v) : l \in LookCounts, v \in {0, 2}}
SeqUpdates == {CallerArticle(HotId, "t2", hotLookCount, v) : v \in CallerVersions}

NextSeq ==
    \/ \E c \in SeqClients, a \in SeqCreates : Quiet /\ CreateArticle(c, a)
    \/ \E c \in SeqClients, a \in SeqUpdates : Quiet /\ UpdateArticle(c, a)
    \/ \E c \in SeqClients : Quiet /\ GetArticle(c, HotId)
    \/ \E c \in SeqClients : Quiet /\ DeleteArticles(c, <<HotId>>)
    \/ \E c \in SeqClients : Quiet /\ CreateIndex(c)
    \/ \E c \in SeqClients : Quiet /\ ArticleExists(c, HotId)
    \/ Step

SpecSeq == Init /\ [][NextSeq]_vars

\* One client whose calls follow one another while the detached tasks of its
\* earlier calls run on.
NextSolo ==
    \/ \E c \in SeqClients, a \in ConcCreates : CreateArticle(c, a)
    \/ \E c \in SeqClients, a \in ConcUpdates : UpdateArticle(c, a)
    \/ \E c \in SeqClients : GetArticle(c, HotId)
    \/ \E c \in SeqClients : DeleteArticles(c, <<HotId>>)
    \/ \E c \in SeqClients : CreateIndex(c)
    \/ \E c \in SeqClients : ArticleExists(c, HotId)
    \/ Step

SpecSolo == Init /\ [][NextSolo]_vars

\* One DeleteArticles call on a store that holds some of the followed articles.
MaxOver == 1
DeleteLengths == {0, 1, 2, batchSize} \cup {batchSize + k : k \in 1..MaxOver}

\* n ids: a1 first, a2 last, ids without a document in between.
IdList(n) ==
    [j \in 1..n |-> IF j = 1 THEN "a1" ELSE IF j = n THEN "a2" ELSE ToString(j)]

StoredArticle(id) ==
    [CallerArticle(id, "t1", hotLookCount + 1, 1) EXCEPT !.CreatedAt = 0, !.UpdatedAt = 0]

InitDelete ==
    /\ search = NoSearch
    /\ \E stored \in SUBSET Ids, cached \in SUBSET Ids :
          /\ engine = [id \in Ids |->
                IF id \in stored THEN <<Marshal(StoredArticle(id))>> ELSE <<>>]
          /\ cache = [id \in Ids |->
                IF id \in cached THEN <<Marshal(StoredArticle(id))>> ELSE <<>>]
          /\ held = [id \in Ids |->
                IF id \in stored \cup cached THEN {Marshal(StoredArticle(id))} ELSE {}]
    /\ indexExists = TRUE
    /\ call = [c \in Clients |-> IdleCall]
    /\ group = [c \in Clients |-> NoGroup]
    /\ incs = EmptyBag
    /\ now = 0
    /\ nCalls = MaxCalls - 1
    /\ last = NoCall
    /\ mu = FreeLock
    /\ thread = NoThreads

NextDelete ==
    \/ \E n \in DeleteLengths : DeleteArticles("c1", IdList(n))
    \/ \E i \in 1..Len(group["c1"].tasks) : BulkDelete("c1", i)
    \/ \E i \in 1..Len(group["c1"].tasks), gone \in SUBSET Ids : BulkFail("c1", i, gone)
    \/ \E i \in 1..Len(group["c1"].tasks), ok \in BOOLEAN : BatchDeleteCache("c1", i, ok)
    \/ DeleteWait("c1")

SpecDelete == InitDelete /\ [][NextDelete]_vars

\* ------------------------------------------ the cache helpers, step by step
\* getCache, setCache and deleteCache with their mutex calls, as the goroutines
\* of concurrent GetArticle calls on one cached article, of the increments they
\* start and of one DeleteArticles batch run through them.
Others == <<indexExists, call, group, incs, now, nCalls, last, search>>

Place(t, pc, sect) == thread[t].pc = pc /\ thread[t].sect = sect
Move(t, pc, sect) == thread' = [thread EXCEPT ![t].pc = pc, ![t].sect = sect]
Enter(t, sect) == thread' = [thread EXCEPT ![t].sect = sect]

InWriter(t) == thread[t].pc \in {"set_cache", "delete_cache"}

\* The increment a GetArticle call starts.
IncOf(t) == <<"inc", t[2]>>

\* s.mu.RLock() in getCache: waits while a writer owns or awaits the lock.
RLock(t) ==
    /\ Place(t, "get_cache", "lock")
    /\ mu.writer = NoThread
    /\ mu' = [mu EXCEPT !.readers = @ \cup {t}]
    /\ Enter(t, "in")
    /\ UNCHANGED <<engine, cache, held, Others>>

\* s.cache.Get(s.ctx, key).Bytes(); json.Unmarshal(data, &article)
GetCacheRead(t, ok) ==
    /\ Place(t, "get_cache", "in")
    /\ LET hit == ok /\ HasCache(HotId) IN
       thread' = [thread EXCEPT
                    ![t].sect = "unlock",
                    ![t].err = ~hit,
                    ![t].art = IF hit THEN Unmarshal(cache[HotId][1]) ELSE ZeroArticle]
    /\ UNCHANGED <<engine, cache, held, mu, Others>>

\* A getCache that returns with its read lock held.
RUnlockForgotten(t) ==
    /\ Place(t, "get_cache", "unlock")
    /\ Enter(t, "ret")
    /\ UNCHANGED <<engine, cache, held, mu, Others>>

\* defer s.mu.RUnlock()
RUnlock(t) ==
    /\ Place(t, "get_cache", "unlock")
    /\ mu' = [mu EXCEPT !.readers = @ \ {t}]
    /\ Enter(t, "ret")
    /\ UNCHANGED <<engine, cache, held, Others>>

\* A setCache or deleteCache that takes the read lock.
LockShared(t) ==
    /\ InWriter(t) /\ thread[t].sect = "lock"
    /\ mu.writer = NoThread
    /\ mu' = [mu EXCEPT !.readers = @ \cup {t}]
    /\ Enter(t, "in")
    /\ UNCHANGED <<engine, cache, held, Others>>

\* s.mu.Lock() in setCache and deleteCache: the writers' mutex first.
Lock(t) ==
    /\ InWriter(t) /\ thread[t].sect = "lock"
    /\ mu.writer = NoThread
    /\ mu' = [mu EXCEPT !.writer = t]
    /\ Enter(t, "wait")
    /\ UNCHANGED <<engine, cache, held, Others>>

\* s.mu.Lock() returns once the readers have left.
LockEnter(t) ==
    /\ InWriter(t) /\ thread[t].sect = "wait"
    /\ mu.writer = t /\ mu.readers = {}
    /\ Enter(t, "in")
    /\ UNCHANGED <<engine, cache, held, mu, Others>>

\* s.cache.Set(s.ctx, key, data, cacheTTL)
SetCacheWrite(t, ok) ==
    /\ Place(t, "set_cache", "in")
    /\ IF ok THEN CachePut(HotId, thread[t].art) ELSE UNCHANGED cache
    /\ Enter(t, "unlock")
    /\ UNCHANGED <<engine, held, mu, Others>>

\* s.cache.Del(s.ctx, key)
DeleteCacheDel(t, ok) ==
    /\ Place(t, "delete_cache", "in")
    /\ IF ok THEN CacheDel(HotId) ELSE UNCHANGED cache
    /\ Enter(t, "unlock")
    /\ UNCHANGED <<engine, held, mu, Others>>

\* defer s.mu.Unlock()
Unlock(t) ==
    /\ InWriter(t) /\ thread[t].sect = "unlock"
    /\ mu.writer = t
    /\ mu' = [mu EXCEPT !.writer = NoThread]
    /\ Enter(t, "ret")
    /\ UNCHANGED <<engine, cache, held, Others>>

\* GetArticle(id): article, err := s.getCache(id)
GetStart(t) ==
    /\ t \in Getters /\ Place(t, "idle", "out")
    /\ Move(t, "get_cache", "lock")
    /\ UNCHANGED <<engine, cache, held, mu, Others>>

\* if err == nil { go s.incrementLookCount(id); return article, nil }
GetAfterCache(t) ==
    /\ t \in Getters /\ Place(t, "get_cache", "ret")
    /\ IF thread[t].err
         THEN Move(t, "get_engine", "out")
         ELSE thread' = [thread EXCEPT ![t].pc = "done", ![t].sect = "out",
                                       ![IncOf(t)] = NewThread("script")]
    /\ UNCHANGED <<engine, cache, held, mu, Others>>

\* Es.Get; json.Unmarshal; if result.LookCount > 100 { s.setCache(id, &result) }
GetFetch(t, ok) ==
    /\ t \in Getters /\ Place(t, "get_engine", "out")
    /\ IF ok /\ HasDoc(HotId)
         THEN LET result == Unmarshal(engine[HotId][1]) IN
              IF result.LookCount > hotLookCount
                THEN thread' = [thread EXCEPT ![t].pc = "set_cache", ![t].sect = "lock",
                                              ![t].art = result]
                ELSE thread' = [thread EXCEPT ![t].pc = "done", ![t].art = result]
         ELSE Move(t, "done", "out")
    /\ UNCHANGED <<engine, cache, held, mu, Others>>

\* setCache has returned: GetArticle returns, incrementLookCount returns.
SetCacheReturn(t) ==
    /\ Place(t, "set_cache", "ret")
    /\ Move(t, "done", "out")
    /\ UNCHANGED <<engine, cache, held, mu, Others>>

\* incrementLookCount: the script update.
IncScriptStep(t, ok) ==
    /\ t \in Incrementers /\ Place(t, "script", "out")
    /\ IF ok /\ HasDoc(HotId)
         THEN /\ EnginePut(HotId, ScriptIncrement(engine[HotId][1]))
              /\ Move(t, "get_cache", "lock")
         ELSE /\ Move(t, "done", "out")
              /\ UNCHANGED <<engine, held>>
    /\ UNCHANGED <<cache, mu, Others>>

\* article, err := s.getCache(id); if err == nil { article.LookCount++; s.setCache }
IncAfterCache(t) ==
    /\ t \in Incrementers /\ Place(t, "get_cache", "ret")
    /\ IF thread[t].err
         THEN Move(t, "done", "out")
         ELSE thread' = [thread EXCEPT ![t].pc = "set_cache", ![t].sect = "lock",
                                       ![t].art.LookCount = @ + 1]
    /\ UNCHANGED <<engine, cache, held, mu, Others>>

\* A DeleteArticles task: the bulk request, then s.deleteCache(id).
DeleteBulk(t, ok) ==
    /\ t = Deleter /\ Place(t, "idle", "out")
    /\ IF ok
         THEN /\ engine' = [engine EXCEPT ![HotId] = <<>>]
              /\ Move(t, "delete_cache", "lock")
         ELSE /\ Move(t, "done", "out")
              /\ UNCHANGED engine
    /\ UNCHANGED <<cache, held, mu, Others>>

\* deleteCache has returned: the task returns.
DeleteCacheReturn(t) ==
    /\ Place(t, "delete_cache", "ret")
    /\ Move(t, "done", "out")
    /\ UNCHANGED <<engine, cache, held, mu, Others>>

\* The hot article is stored and cached; no goroutine has started.
InitLock ==
    /\ search = NoSearch
    /\ mu = FreeLock
    /\ thread = NoThreads
    /\ engine = [id \in Ids |-> IF id = HotId THEN <<Marshal(StoredArticle(id))>> ELSE <<>>]
    /\ cache = engine
    /\ held = [id \in Ids |-> IF id = HotId THEN {Marshal(StoredArticle(id))} ELSE {}]
    /\ indexExists = TRUE
    /\ call = [c \in Clients |-> IdleCall]
    /\ group = [c \in Clients |-> NoGroup]
    /\ incs = EmptyBag
    /\ now = 0
    /\ nCalls = 0
    /\ last = NoCall

\* A step of goroutine t after its start, in GetArticle, incrementLookCount
\* or the cache helper they call.
Run(t) ==
    \/ RLock(t)
    \/ \E ok \in BOOLEAN : GetCacheRead(t, ok)
    \/ RUnlock(t)
    \/ Lock(t)
    \/ LockEnter(t)
    \/ \E ok \in BOOLEAN : SetCacheWrite(t, ok)
    \/ Unlock(t)
    \/ GetAfterCache(t)
    \/ \E ok \in BOOLEAN : GetFetch(t, ok)
    \/ SetCacheReturn(t)
    \/ \E ok \in BOOLEAN : IncScriptStep(t, ok)
    \/ IncAfterCache(t)

\* Concurrent GetArticle calls on the cached article and their increments.
NextGets ==
    \/ \E t \in Getters : GetStart(t)
    \/ \E t \in Getters \cup Incrementers : Run(t)

SpecGets == InitLock /\ [][NextGets]_vars

\* Every store call returns and the scheduler runs every goroutine.
FairSpecGets == SpecGets /\ \A t \in Getters \cup Incrementers : WF_vars(Run(t))

\* The same with the task of a DeleteArticles batch alongside.
NextLock ==
    \/ \E t \in Getters : GetStart(t)
    \/ \E ok \in BOOLEAN : DeleteBulk(Deleter, ok)
    \/ \E t \in ThreadIds : Run(t)
    \/ \E ok \in BOOLEAN : DeleteCacheDel(Deleter, ok)
    \/ DeleteCacheReturn(Deleter)

SpecLock == InitLock /\ [][NextLock]_vars

\* ------------------------------------------------------ SearchArticles
\* Documents the index holds after the first MaxMatching a query matches
\* are not followed.
MaxMatching == 3

\* The _source of a1 with a look_count that is not a number.
MistypedSource ==
    [SourceOf(StoredArticle("a1")) EXCEPT !["look_count"] = JsonString("many")]

SearchSources == {SourceOf(StoredArticle(id)) : id \in Ids} \cup {MistypedSource}

SearchKeys == {"", "go"}
SearchCategories == {"", "tech"}
SortFields == {"", "look_count"}
SortOrders == {"", "asc", "desc", "ASC"}
Pages == {0, 1, 2}
PageSizes == {1, 2}

SearchInputs ==
    [Key : SearchKeys, Page : Pages, PageSize : PageSizes,
     Category : SearchCategories, SortField : SortFields, SortOrder : SortOrders]

\* SearchArticles up to searchRequest.Do: the query, the page and the sort.
SearchArticles(c, params) ==
    /\ Begin(c, "search", "search_do", ZeroArticle, <<>>)
    /\ search' = [search EXCEPT !.of[c] =
                     [params |-> params, request |-> BuildRequest(params),
                      resp |-> <<>>, result |-> NoResult]]
    /\ UNCHANGED <<engine, indexExists, cache, group, incs, now, held, locks>>

\* searchRequest.Do and the loop over the hits.  The engine rejects a
\* negative from.
SearchDo(c, ok) ==
    /\ At(c, "search", "search_do")
    /\ IF ok /\ search.of[c].request.from >= 0
         THEN LET resp == EngineSearch(search.of[c].request, search.matching)
              IN /\ search' = [search EXCEPT !.of[c].resp = <<resp>>,
                                             !.of[c].result = SearchResultOf(resp)]
                 /\ Return(c, "ok")
         ELSE UNCHANGED search /\ Return(c, "search_failed")
    /\ UNCHANGED <<engine, indexExists, cache, group, incs, now, nCalls, held, locks>>

\* One search, over every list of up to MaxMatching matching documents.
InitSearch ==
    /\ \E n \in 0..MaxMatching : \E matching \in [1..n -> SearchSources] :
          search = [NoSearch EXCEPT !.matching = matching]
    /\ mu = FreeLock
    /\ thread = NoThreads
    /\ engine = [id \in Ids |-> <<>>]
    /\ indexExists = TRUE
    /\ cache = [id \in Ids |-> <<>>]
    /\ call = [c \in Clients |-> IdleCall]
    /\ group = [c \in Clients |-> NoGroup]
    /\ incs = EmptyBag
    /\ now = 0
    /\ nCalls = MaxCalls - 1
    /\ held = [id \in Ids |-> {}]
    /\ last = NoCall

NextSearch ==
    \/ \E c \in SeqClients : \E params \in SearchInputs : SearchArticles(c, params)
    \/ \E c \in SeqClients : \E ok \in BOOLEAN : SearchDo(c, ok)

SpecSearch == InitSearch /\ [][NextSearch]_vars

\* ============================================================== claims
Returns(c, op) == call[c].op = op /\ call[c].pc # "done" /\ call'[c].pc = "done"

Version(store, id) == Unmarshal(store[id][1]).Version

\* C1 (SpecSeq): a GetArticle(id) that returns a record right after a
\* successful CreateArticle(a) with a.ID = id, nothing else having run in
\* between, returns version 1 and a's id, title and look count.
C1_CreateThenGet ==
    [][\A c \in Clients :
         (/\ Returns(c, "get") /\ call'[c].ret = "ok"
          /\ last.op = "create" /\ last.ret = "ok"
          /\ last.art.ID = call[c].art.ID)
         => /\ call'[c].out.Version = 1
            /\ call'[c].out.ID = last.art.ID
            /\ call'[c].out.Title = last.art.Title
            /\ call'[c].out.LookCount = last.art.LookCount]_vars

\* Two calls were made, the second a GetArticle that returned a version 1
\* record of the one document the engine ever held: the first call created it.
C1_Witness ==
    /\ nCalls = 2
    /\ call["c1"].op = "get" /\ call["c1"].pc = "done" /\ call["c1"].ret = "ok"
    /\ call["c1"].out.Version = 1 /\ call["c1"].out.Title = "t1"
    /\ held[HotId] = {Marshal(call["c1"].out)}

\* C2 (SpecSeq): every successful engine write of UpdateArticle leaves the
\* stored version exactly one above the version stored before it.
C2_UpdateRaisesVersionByOne ==
    [][\A c \in Clients :
         (At(c, "update", "update_engine") /\ call'[c].pc = "set_cache")
         => Version(engine', call[c].art.ID) = Version(engine, call[c].art.ID) + 1]_vars

\* C3 (Spec): while an article exists, its stored version never decreases
\* from one state to the next.
C3_VersionNeverDecreases ==
    [][\A id \in Ids :
         (HasDoc(id) /\ engine'[id] # <<>>)
         => Version(engine', id) >= Version(engine, id)]_vars

CreateChecks(c) ==
    /\ call[c].op = "create"
    /\ call[c].pc \in {"exists_cache", "exists_engine"}
    /\ call'[c] # call[c]

\* C4 as stated (SpecSeq): while a.id has a cache entry or an engine document,
\* the existence check of CreateArticle(a) never lets the call go on to
\* write, and the call returns nothing but the already-exists error.
C4_ExistingIdIsRejected ==
    [][\A c \in Clients :
         (CreateChecks(c) /\ (HasCache(call[c].art.ID) \/ HasDoc(call[c].art.ID)))
         => /\ UNCHANGED <<engine, cache>>
            /\ call'[c].pc # "index"
            /\ call'[c].pc = "done" => call'[c].ret = "already_exists"]_vars

\* C4 as amended (SpecSeq): the existence check writes nothing; while a.id has
\* an engine document the call never goes on to write and returns the
\* already-exists error or, when the engine's existence call fails, the
\* existence-check error; a cache read that returns an entry ends the call
\* with the already-exists error.
C4_ExistingDocIsRejected ==
    [][\A c \in Clients :
         CreateChecks(c)
         => /\ UNCHANGED <<engine, cache>>
            /\ HasDoc(call[c].art.ID)
                 => /\ call'[c].pc # "index"
                    /\ call'[c].pc = "done"
                         => call'[c].ret \in {"already_exists", "exists_check_failed"}
                    /\ call[c].pc = "exists_engine" => call'[c].pc = "done"
            /\ (call[c].pc = "exists_cache" /\ call'[c].pc = "done")
                 => HasCache(call[c].art.ID) /\ call'[c].ret = "already_exists"]_vars

\* A CreateArticle was rejected as already existing, by the engine's answer.
C4_Witness ==
    \E c \in Clients :
       /\ call[c].op = "create" /\ call[c].pc = "done"
       /\ call[c].ret = "already_exists"
       /\ HasDoc(call[c].art.ID) /\ ~HasCache(call[c].art.ID)

\* C5 (SpecSeq): once its engine write has succeeded, CreateArticle and
\* UpdateArticle return success whatever the cache write does, and
\* DeleteArticles returns success when every batch's bulk request succeeded.
C5_CacheFailureNotReturned ==
    [][\A c \in Clients :
         /\ (Returns(c, "create") \/ Returns(c, "update")) /\ call[c].pc = "set_cache"
              => call'[c].ret = "ok"
         /\ (Returns(c, "delete")
               /\ \A i \in DOMAIN group[c].tasks : group[c].tasks[i].pc = "done")
              => call'[c].ret = "ok"]_vars

CeilDiv(n, d) == (n + d - 1) \div d

RECURSIVE Concat(_)
Concat(ss) == IF ss = <<>> THEN <<>> ELSE Head(ss) \o Concat(Tail(ss))

\* The call has started its tasks and none of them has taken a step.
JustStarted(c) == \A i \in DOMAIN group[c].tasks : group[c].tasks[i].pc = "bulk"

\* C6 (SpecDelete): DeleteArticles(ids) starts ceil(len(ids) / batchSize) bulk
\* requests; their batches are non-empty slices of at most batchSize ids, each
\* starting where the one before ends and the last ending where ids ends, and
\* the batches the call starts with are, one after the other, ids.
C6_Batches ==
    \A c \in Clients :
       call[c].op = "delete"
       => LET ids == call[c].ids
              ts == group[c].tasks
          IN /\ Len(ts) = CeilDiv(Len(ids), batchSize)
             /\ \A i \in DOMAIN ts :
                   /\ ts[i].lo < ts[i].hi
                   /\ ts[i].hi - ts[i].lo <= batchSize
                   /\ ts[i].lo = IF i = 1 THEN 0 ELSE ts[i - 1].hi
             /\ ts # <<>> => ts[Len(ts)].hi = Len(ids)
             /\ JustStarted(c)
                  => Concat([i \in DOMAIN ts |-> Slice(ids, ts[i].lo, ts[i].hi)]) = ids

\* A call with batchSize + 1 ids runs two batches.
C6_Witness ==
    /\ call["c1"].op = "delete"
    /\ Len(call["c1"].ids) = batchSize + 1
    /\ Len(group["c1"].tasks) = 2
    /\ group["c1"].tasks[2].lo = batchSize

\* C7 (SpecDelete): when DeleteArticles has returned an error, no id of a
\* batch whose bulk request succeeded has an engine document.
C7_NoRollback ==
    \A c \in Clients :
       (call[c].op = "delete" /\ call[c].pc = "done" /\ call[c].ret = "delete_failed")
       => \A i \in DOMAIN group[c].tasks :
             group[c].tasks[i].pc = "done"
             => \A id \in SliceIds(call[c].ids, group[c].tasks[i]) : ~HasDoc(id)

\* The call failed on its second batch, whose article is still stored, after
\* the first batch had deleted its article.
C7_Witness ==
    /\ call["c1"].op = "delete" /\ call["c1"].pc = "done"
    /\ call["c1"].ret = "delete_failed"
    /\ Len(group["c1"].tasks) = 2
    /\ group["c1"].tasks[1].pc = "done" /\ group["c1"].tasks[2].pc = "failed"
    /\ held["a1"] # {} /\ ~HasDoc("a1") /\ HasDoc("a2")

\* C8 (SpecDelete): a failed batch task leaves the shared context cancelled;
\* DeleteArticles returns only when every task is over, returns the error of
\* the task that failed first, and returns success only if every task
\* succeeded.
C8_FailFast ==
    \A c \in Clients :
       call[c].op = "delete"
       => LET g == group[c] IN
          /\ g.failed # <<>> => g.cancelled
          /\ call[c].pc = "done"
               => /\ \A i \in DOMAIN g.tasks : TaskOver(g.tasks[i])
                  /\ call[c].ret = "ok" <=> \A i \in DOMAIN g.tasks : g.tasks[i].pc = "done"
                  /\ call[c].ret # "ok"
                       => call[c].ret = "delete_failed" /\ g.err = Head(g.failed)

\* Both batches failed, the second one first.
C8_Witness ==
    /\ call["c1"].op = "delete" /\ call["c1"].pc = "done"
    /\ group["c1"].failed = <<2, 1>>
    /\ group["c1"].err = 2

\* C9 (SpecDelete): after DeleteArticles(ids) has returned success with no
\* cache deletion failure logged, no id of ids has an engine document or a
\* cache entry.
C9_DeletedEverywhere ==
    \A c \in Clients :
       (call[c].op = "delete" /\ call[c].pc = "done" /\ call[c].ret = "ok"
          /\ ~group[c].warned)
       => \A j \in DOMAIN call[c].ids :
             ~HasDoc(call[c].ids[j]) /\ ~HasCache(call[c].ids[j])

\* A successful two-batch call on a store that held both articles.
C9_Witness ==
    /\ call["c1"].op = "delete" /\ call["c1"].pc = "done" /\ call["c1"].ret = "ok"
    /\ ~group["c1"].warned
    /\ Len(group["c1"].tasks) = 2
    /\ held["a1"] # {} /\ held["a2"] # {}

\* C10 (SpecCacheUp): every cache entry is a document the engine holds or
\* has held for that id.
C10_CacheMirrorsEngine ==
    \A id \in Ids : HasCache(id) => cache[id][1] \in held[id]

\* C11 (SpecSeq): a GetArticle that fetched its document from the engine goes
\* on to write the cache exactly when the document's look_count is above 100;
\* with a look_count of 100 or less it returns the document and leaves the cache
\* as it was; the cache write, when it takes effect, leaves the fetched
\* document as the entry of the id, and the call returns the document.
C11_CachedIffHot ==
    [][\A c \in Clients :
         LET id == call[c].art.ID IN
         /\ (At(c, "get", "get_engine") /\ call'[c] # call[c]
                /\ call'[c].ret # "get_failed")
              => LET doc == engine[id][1] IN
                 /\ UNCHANGED cache
                 /\ call'[c].out = Unmarshal(doc)
                 /\ doc.look_count > 100 <=> call'[c].pc = "set_cache"
                 /\ doc.look_count <= 100
                      <=> (call'[c].pc = "done" /\ call'[c].ret = "ok")
         /\ (At(c, "get", "set_cache") /\ call'[c] # call[c])
              => /\ call[c].out.LookCount > 100
                 /\ call'[c].pc = "done" /\ call'[c].ret = "ok"
                 /\ call'[c].out = call[c].out
                 /\ cache' # cache
                      => cache' = [cache EXCEPT ![id] = <<Marshal(call[c].out)>>]]_vars

\* A GetArticle found no cache entry, fetched a document with look_count 101
\* and is about to cache it.
C11_Witness ==
    \E c \in Clients :
       /\ At(c, "get", "set_cache")
       /\ call[c].out.LookCount = 101
       /\ ~HasCache(call[c].art.ID)

\* C13 (SpecSeq): no step of ArticleExists, called by a client or by
\* CreateArticle, changes an engine document, the index, a cache entry or the
\* pending view-count tasks, whatever it answers.
C13_ExistsChangesNothing ==
    [][\A c \in Clients :
         (/\ \/ call[c].op = "exists"
             \/ call'[c].op = "exists"
             \/ call[c].op = "create" /\ call[c].pc \in {"exists_cache", "exists_engine"}
          /\ call'[c] # call[c])
         => UNCHANGED <<engine, indexExists, cache, incs>>]_vars

\* ArticleExists has answered true for an article that is stored and cached.
C13_Witness ==
    \E c \in Clients :
       /\ call[c].op = "exists" /\ call[c].pc = "done"
       /\ call[c].ret = "true"
       /\ HasCache(call[c].art.ID) /\ HasDoc(call[c].art.ID)

\* C14 (SpecSeq): when CreateIndex returns success the index exists and holds
\* no document, whether it found the index absent or present with documents;
\* and the engine stays so until the next call starts, so that a successful
\* CreateIndex that follows a successful CreateIndex leaves the engine as the
\* first one left it.
C14_CreateIndexIdempotent ==
    [][/\ \A c \in Clients :
            (Returns(c, "create_index") /\ call'[c].ret = "ok")
            => indexExists' /\ \A id \in Ids : engine'[id] = <<>>
       /\ (Quiet' /\ last'.op = "create_index" /\ last'.ret = "ok")
            => indexExists' /\ \A id \in Ids : engine'[id] = <<>>]_vars

\* The second call of the behaviour was a CreateIndex that returned success
\* on an index the first call had put a document in.
C14_Witness ==
    \E c \in Clients :
       /\ nCalls = 2
       /\ call[c].op = "create_index" /\ call[c].pc = "done" /\ call[c].ret = "ok"
       /\ held[HotId] # {} /\ ~HasDoc(HotId) /\ indexExists

\* A step of a CreateArticle or UpdateArticle call that has not reached its
\* cache write.
BeforeCacheWrite(c) ==
    /\ call[c].op \in {"create", "update"}
    /\ call[c].pc \notin {"set_cache", "done"}
    /\ call'[c] # call[c]

\* C15 (SpecSeq): CreateArticle and UpdateArticle write the cache only after
\* their engine write: no step before the cache write changes a cache entry,
\* the step that leads to the cache write leaves the call's article as the
\* engine document, a call that ends before it returns an error and its last
\* step changes no engine document, and the entry the cache write leaves is a
\* document the engine has held for the id.
C15_EngineBeforeCache ==
    [][\A c \in Clients :
         LET id == call[c].art.ID IN
         /\ BeforeCacheWrite(c)
              => /\ UNCHANGED cache
                 /\ call'[c].pc = "set_cache"
                      => engine'[id] = <<Marshal(call[c].art)>>
                 /\ call'[c].pc = "done"
                      => call'[c].ret # "ok" /\ UNCHANGED engine
         /\ (call[c].op \in {"create", "update"} /\ call[c].pc = "set_cache"
               /\ call'[c] # call[c] /\ cache' # cache)
              => /\ cache'[id] = <<Marshal(call[c].art)>>
                 /\ cache'[id][1] \in held[id]]_vars

\* An UpdateArticle failed at its engine request on a stored and cached
\* article; the cache entry is still the document the engine holds.
C15_Witness ==
    \E c \in Clients :
       /\ call[c].op = "update" /\ call[c].pc = "done"
       /\ call[c].ret = "update_failed"
       /\ HasDoc(call[c].art.ID) /\ HasCache(call[c].art.ID)
       /\ cache[call[c].art.ID] = engine[call[c].art.ID]

\* A step of a detached incrementLookCount task.
IncStep == incs' # incs /\ call' = call

\* Version and updated_at of the document a store holds for id.
Stamp(store, id) == <<store[id][1].version, store[id][1].updated_at>>

\* C16 (Spec): no step of a view-count increment task changes the version or
\* the updated_at of the engine document or of the cache entry of an article,
\* whatever a concurrent UpdateArticle does between the task's steps.
C16_IncrementKeepsStamp ==
    [][IncStep
         => \A id \in Ids :
               /\ (engine[id] # <<>> /\ engine'[id] # <<>>)
                    => Stamp(engine', id) = Stamp(engine, id)
               /\ (cache[id] # <<>> /\ cache'[id] # <<>>)
                    => Stamp(cache', id) = Stamp(cache, id)]_vars

\* C17 (SpecSolo): when the call that returned last is a DeleteArticles(ids)
\* that succeeded with no cache deletion failure, and no call and no
\* view-count task is running, no id of ids has a cache entry.
C17_DeletedStaysUncached ==
    \A c \in Clients :
       (/\ call[c].op = "delete" /\ call[c].pc = "done" /\ call[c].ret = "ok"
        /\ last.op = "delete" /\ last.ret = "ok"
        /\ ~group[c].warned
        /\ Quiet)
       => \A j \in DOMAIN call[c].ids : ~HasCache(call[c].ids[j])

\* The clients whose current call is a CreateArticle that returned success.
Created == {c \in Clients : call[c].op = "create" /\ call[c].pc = "done"
                             /\ call[c].ret = "ok"}

\* C18 (Spec): while the only calls made on the empty store are CreateArticle
\* calls with one id, at most one of them has returned success.
C18_OneCreateSucceeds ==
    (nCalls <= 2 /\ \A c \in Clients : call[c].op \in {"none", "create"})
    => Cardinality(Created) <= 1

\* A step of a GetArticle call of client c, its start included.
GetStep(c) == call'[c] # call[c] /\ call'[c].op = "get"

\* The step in which GetArticle returns from its cache read.
GetHit(c) == GetStep(c) /\ call[c].pc = "get_cache" /\ call'[c].pc = "done"

\* C19 (SpecSolo): the step in which GetArticle returns from its cache read
\* returns the cache entry, reads and writes no engine document and adds
\* exactly one increment task for the id; every other step of GetArticle
\* leaves the pending tasks and the engine documents as they are; and a step
\* of an increment task changes no call and no returned value.
C19_IncrementIffHit ==
    [][/\ \A c \in Clients :
            LET id == call[c].art.ID IN
            /\ GetHit(c)
                 => /\ HasCache(id)
                    /\ call'[c].ret = "ok"
                    /\ call'[c].out = Unmarshal(cache[id][1])
                    /\ BagCardinality(incs') = BagCardinality(incs) + 1
                    /\ \E t \in BagToSet(incs') :
                          /\ t.id = id /\ t.pc = "script"
                          /\ CopiesIn(t, incs') = CopiesIn(t, incs) + 1
                    /\ UNCHANGED <<engine, cache>>
            /\ (GetStep(c) /\ ~GetHit(c)) => UNCHANGED <<incs, engine>>
       /\ (incs' # incs /\ \A c \in Clients : ~GetHit(c))
            => UNCHANGED <<call, last>>]_vars

\* A GetArticle has returned the cache entry and its increment task has not
\* taken a step yet.
C19_Witness ==
    \E c \in Clients :
       /\ call[c].op = "get" /\ call[c].pc = "done" /\ call[c].ret = "ok"
       /\ HasCache(call[c].art.ID)
       /\ call[c].out = Unmarshal(cache[call[c].art.ID][1])
       /\ \E t \in BagToSet(incs) : t.id = call[c].art.ID /\ t.pc = "script"

\* Goroutine t has started and not returned.
Live(t) == thread[t].pc \notin {"idle", "unspawned", "done"}

\* Goroutine t is inside a mutex call that cannot return in this state.
Blocked(t) ==
    \/ Place(t, "get_cache", "lock") /\ mu.writer # NoThread
    \/ InWriter(t) /\ thread[t].sect = "lock" /\ mu.writer # NoThread
    \/ InWriter(t) /\ thread[t].sect = "wait" /\ mu.readers # {}

NoLockDeadlock ==
    (\E t \in ThreadIds : Live(t)) => \E t \in ThreadIds : Live(t) /\ ~Blocked(t)

\* C12 (FairSpecGets): with concurrent GetArticle calls on one cached article
\* and the increments they start, in no state is every running goroutine
\* blocked in a mutex call, and every goroutine that has started eventually
\* returns: again and again none is running.
C12_NoDeadlock ==
    /\ []NoLockDeadlock
    /\ []<>(\A t \in ThreadIds : ~Live(t))

\* A GetArticle waits for its read lock while the increment another
\* GetArticle started is inside setCache.
C12_Witness ==
    \E t \in Getters, w \in Incrementers :
       /\ Place(t, "get_cache", "lock")
       /\ mu.writer = w /\ Place(w, "set_cache", "in")
       /\ Blocked(t)

\* Goroutine t is between the return of its lock call and its unlock call.
InSection(t) == thread[t].sect \in {"in", "unlock"}

\* C20 (SpecLock): while a setCache or a deleteCache is inside its critical
\* section, no other getCache, setCache or deleteCache is inside its own.
C20_WritesExclusive ==
    \A t \in ThreadIds :
       (InWriter(t) /\ InSection(t))
       => \A u \in ThreadIds \ {t} : ~InSection(u)

\* Two getCache calls are inside their critical sections at the same time.
C20_Witness ==
    \E t \in ThreadIds, u \in ThreadIds :
       /\ t # u
       /\ Place(t, "get_cache", "in") /\ Place(u, "get_cache", "in")
       /\ mu.readers = {t, u}

\* The client's SearchArticles has returned.
SearchDone(c) == At(c, "search", "done")

Decodes(hit) == UnmarshalSource(hit).ok

\* The places on the page of the hits that decode.
Kept(hits) == {i \in 1..Len(hits) : Decodes(hits[i])}

\* The k-th place of S, counting upwards.
NthOf(S, k) == CHOOSE i \in S : Cardinality({j \in S : j <= i}) = k

\* C21 (SpecSearch): a SearchArticles the engine answered returns without
\* error, whatever hits fail to decode; its Total is the engine's total, and
\* its Articles are the decoded hits of the page that decode, one per such
\* hit and in the order of the page, so never more than the page holds.  A
\* call the engine did not answer fails and returns nothing.
C21_SkipsBadHits ==
    \A c \in Clients :
       SearchDone(c)
       => LET s == search.of[c]
          IN IF s.resp = <<>>
               THEN call[c].ret # "ok" /\ s.result = NoResult
               ELSE LET r == s.resp[1]
                        kept == Kept(r.hits)
                    IN /\ call[c].ret = "ok"
                       /\ s.result.Total = r.total
                       /\ r.total = Len(search.matching)
                       /\ Len(s.result.Articles) = Cardinality(kept)
                       /\ Len(s.result.Articles) <= Len(r.hits)
                       /\ \A k \in 1..Len(s.result.Articles) :
                             s.result.Articles[k]
                                = UnmarshalSource(r.hits[NthOf(kept, k)]).art

\* A search returned a page of two hits whose first did not decode: one
\* article, the second hit's, and the total of three.
C21_Witness ==
    \E c \in Clients :
       /\ SearchDone(c) /\ call[c].ret = "ok"
       /\ search.of[c].resp # <<>>
       /\ LET r == search.of[c].resp[1]
          IN /\ Len(r.hits) = 2
             /\ ~Decodes(r.hits[1]) /\ Decodes(r.hits[2])
             /\ r.total = 3
             /\ search.of[c].result.Total = 3
             /\ Len(search.of[c].result.Articles) = 1
             /\ search.of[c].result.Articles[1].ID = "a2"

\* The client's SearchArticles has built its request.
Searching(c) == call[c].op = "search"

\* The must-clauses of the request that are of a kind.
ClausesOf(request, kind) ==
    {i \in 1..Len(request.must) : request.must[i].kind = kind}

\* C22 (SpecSearch): the request SearchArticles sends has a multi_match
\* must-clause, on the key, iff Key is non-empty, a term must-clause, on the
\* category, iff Category is non-empty, and no other clause, both in the one
\* must list when both are present; it has a sort iff SortField is
\* non-empty, and that sort is "<field>:asc" exactly when SortOrder is the
\* string asc and "<field>:desc" for every other SortOrder, the empty one too.
C22_QueryShape ==
    \A c \in Clients :
       Searching(c)
       => LET p == search.of[c].params
              q == search.of[c].request
              texts == ClausesOf(q, "multi_match")
              terms == ClausesOf(q, "term")
          IN /\ Cardinality(texts) = (IF p.Key # "" THEN 1 ELSE 0)
             /\ Cardinality(terms) = (IF p.Category # "" THEN 1 ELSE 0)
             /\ texts \cup terms = 1..Len(q.must)
             /\ \A i \in texts : q.must[i].value = p.Key
                                  /\ q.must[i].fields = MultiMatchFields
             /\ \A i \in terms : q.must[i].value = p.Category
                                  /\ q.must[i].fields = <<"category">>
             /\ (q.sort # <<>>) <=> (p.SortField # "")
             /\ (q.sort = <<p.SortField \o ":asc">>)
                   <=> (p.SortField # "" /\ p.SortOrder = "asc")
             /\ (q.sort = <<p.SortField \o ":desc">>)
                   <=> (p.SortField # "" /\ p.SortOrder # "asc")

\* A search with a key, a category, a sort field and the sort order "ASC"
\* sent both clauses and the sort look_count:desc.
C22_Witness ==
    \E c \in Clients :
       /\ Searching(c)
       /\ search.of[c].params.Key = "go"
       /\ search.of[c].params.Category = "tech"
       /\ search.of[c].params.SortField = "look_count"
       /\ search.of[c].params.SortOrder = "ASC"
       /\ Len(search.of[c].request.must) = 2
       /\ search.of[c].request.sort = <<"look_count:desc">>

====
